---- MODULE Spec2Model ----
(***************************************************************************)
(* The interaction/state controller of the LacrosseBoard component         *)
(* (src/src/App.js): the element list, the active tool, the in-progress    *)
(* element, the selection set, the drag anchor and the selection box, and  *)
(* the handlers that the pointer, toolbar and modal events run.            *)
(*                                                                         *)
(* Each handler is one atomic action: React commits the state a handler    *)
(* sets before the next event's handler reads it.  Coordinates are integer *)
(* canvas pixels, for which the double arithmetic of the source (sums,     *)
(* differences, products) is exact.  A Euclidean distance is carried as    *)
(* its square, so that every comparison of the source is a comparison of   *)
(* integers.                                                               *)
(***************************************************************************)
EXTENDS Integers, Sequences, FiniteSets, TLC

\* ---- bounds of the model ----
MaxEvents == 7     \* events handled in one behaviour

\* ---- values ----
Null == [type |-> "null"]
Tools == {"player", "circle", "line", "freehand", "interact", "eraser"}
Colors == {"#ef4444", "#3b82f6"}
Points == {[x |-> 0, y |-> 0], [x |-> 12, y |-> 0], [x |-> 0, y |-> 20]}

PlayerRadius == 8
HitThreshold == 10
PlayerSlack == 5
MinZoneRadius == 10
Padding == 30
FullYardsWide == 110
FullYardsHigh == 60
HalfYardsWide == 60
HalfYardsHigh == 65
ViewModes == {"full", "half"}

VARIABLES
    tool,                \* useState('player')
    viewMode,            \* useState('full')
    canvas,              \* canvasRef.current: width and height of the canvas
    frame,               \* what drawField painted in the last render
    color,               \* useState('#ef4444')
    elements,            \* useState([]): the committed sequence
    isDrawing,           \* useState(false)
    currentElement,      \* useState(null): the in-progress element
    showClearConfirm,    \* useState(false): the confirmation gate
    selectedElementIds,  \* useState([])
    dragLastPos,         \* useState(null): the drag anchor
    selectionBox,        \* useState(null)
    nextId,              \* the number of ids generateId has handed out
    crashed,             \* a state updater threw: the component is unmounted
    nEvents,             \* history: the number of events handled so far
    pointerDown,         \* history: the last of handleStart and handleEnd to run
                         \* was handleStart
    beforeDrag,          \* history: elements and anchor before the group drag
                         \* the last event made, Null after any other event
    lastEvent            \* history: the event whose handler ran last (for a
                         \* pointer-up, with the event that came before it)

vars == <<tool, viewMode, canvas, frame, color, elements, isDrawing, currentElement, showClearConfirm,
          selectedElementIds, dragLastPos, selectionBox, nextId, crashed, nEvents,
          pointerDown, beforeDrag, lastEvent>>

\* ---- array helpers ----
\* Array.prototype.filter is SelectSeq, .map a function over the indices
includes(arr, v) == \E i \in 1..Len(arr) : arr[i] = v

\* ---- geometry / hit testing ----
\* distance(a, b), squared
distance(a, b) == (a.x - b.x) * (a.x - b.x) + (a.y - b.y) * (a.y - b.y)

\* pointToLineDistance(point, start, end), squared, as the fraction n / d:
\* with param clamped to [0,1] the squared distance to the projection is
\* (A^2 + B^2) - dot^2 / lenSq.
\* mutant: param = dot / lenSq is taken without the test of lenSq
pointToLineDistanceNoGuard(point, start, end) ==
    LET A == point.x - start.x
        B == point.y - start.y
        C == end.x - start.x
        D == end.y - start.y
        dot == A * C + B * D
        lenSq == C * C + D * D
    IN  IF dot < 0
            THEN [n |-> distance(point, start), d |-> 1]
        ELSE IF dot > lenSq
            THEN [n |-> distance(point, end), d |-> 1]
        ELSE [n |-> (A * A + B * B) * lenSq - dot * dot, d |-> lenSq]

pointToLineDistance(point, start, end) ==
    LET A == point.x - start.x
        B == point.y - start.y
        C == end.x - start.x
        D == end.y - start.y
        dot == A * C + B * D
        lenSq == C * C + D * D
    IN  IF lenSq = 0 \/ dot < 0
            THEN [n |-> distance(point, start), d |-> 1]
        ELSE IF dot > lenSq
            THEN [n |-> distance(point, end), d |-> 1]
        ELSE [n |-> (A * A + B * B) * lenSq - dot * dot, d |-> lenSq]

Max(a, b) == IF a >= b THEN a ELSE b
Min(a, b) == IF a <= b THEN a ELSE b
Abs(a) == IF a < 0 THEN -a ELSE a

\* mutant: the line and freehand tests accept a distance equal to the threshold
isHitInclusive(element, x, y) ==
    LET p == [x |-> x, y |-> y] IN
    IF element.type = "player" THEN
        distance(p, [x |-> element.x, y |-> element.y])
            <= (element.radius + PlayerSlack) * (element.radius + PlayerSlack)
    ELSE IF element.type = "circle" THEN
        distance(p, [x |-> element.sx, y |-> element.sy])
            <= Max(distance([x |-> element.sx, y |-> element.sy],
                            [x |-> element.ex, y |-> element.ey]),
                   MinZoneRadius * MinZoneRadius)
    ELSE IF element.type = "line" THEN
        LET q == pointToLineDistance(p, [x |-> element.sx, y |-> element.sy],
                                        [x |-> element.ex, y |-> element.ey])
        IN  q.n <= HitThreshold * HitThreshold * q.d
    ELSE IF element.type = "freehand" THEN
        \E i \in 1..Len(element.points) :
            distance(p, element.points[i]) <= HitThreshold * HitThreshold
    ELSE FALSE

isHit(element, x, y) ==
    LET p == [x |-> x, y |-> y] IN
    IF element.type = "player" THEN
        distance(p, [x |-> element.x, y |-> element.y])
            <= (element.radius + PlayerSlack) * (element.radius + PlayerSlack)
    ELSE IF element.type = "circle" THEN
        distance(p, [x |-> element.sx, y |-> element.sy])
            <= Max(distance([x |-> element.sx, y |-> element.sy],
                            [x |-> element.ex, y |-> element.ey]),
                   MinZoneRadius * MinZoneRadius)
    ELSE IF element.type = "line" THEN
        LET q == pointToLineDistance(p, [x |-> element.sx, y |-> element.sy],
                                        [x |-> element.ex, y |-> element.ey])
        IN  q.n < HitThreshold * HitThreshold * q.d
    ELSE IF element.type = "freehand" THEN
        \E i \in 1..Len(element.points) :
            distance(p, element.points[i]) < HitThreshold * HitThreshold
    ELSE FALSE

\* mutant: the rectangle test allows the slack of the marker hit test
InBoxLoose(px, py, rect) ==
    /\ px >= rect.x - (PlayerRadius + PlayerSlack)
    /\ px <= rect.x + rect.w + (PlayerRadius + PlayerSlack)
    /\ py >= rect.y - (PlayerRadius + PlayerSlack)
    /\ py <= rect.y + rect.h + (PlayerRadius + PlayerSlack)

InBox(px, py, rect) ==
    /\ px >= rect.x /\ px <= rect.x + rect.w
    /\ py >= rect.y /\ py <= rect.y + rect.h

isElementInRect(element, rect) ==
    IF element.type = "player" THEN InBox(element.x, element.y, rect)
    ELSE IF element.type \in {"line", "circle"} THEN
        InBox(element.sx, element.sy, rect) \/ InBox(element.ex, element.ey, rect)
    ELSE IF element.type = "freehand" THEN
        \E i \in 1..Len(element.points) :
            InBox(element.points[i].x, element.points[i].y, rect)
    ELSE FALSE

\* mutant: the loop stops before index 0 and never tests the bottom element
RECURSIVE ScanDownStopsEarly(_, _, _, _)
ScanDownStopsEarly(elems, i, x, y) ==
    IF i < 2 THEN Null
    ELSE IF isHit(elems[i], x, y) THEN elems[i]
    ELSE ScanDownStopsEarly(elems, i - 1, x, y)

RECURSIVE ScanDown(_, _, _, _)
ScanDown(elems, i, x, y) ==
    IF i < 1 THEN Null
    ELSE IF isHit(elems[i], x, y) THEN elems[i]
    ELSE ScanDown(elems, i - 1, x, y)

getElementAtPosition(elems, x, y) == ScanDown(elems, Len(elems), x, y)

\* ---- field renderer ----
\* a quotient of the source, kept as the fraction n / d
Frac(n, d) == [n |-> n, d |-> d]

\* mutant: the safety check lets a drawing area of size zero through
NoDrawingAreaStrict(width, height) == width < Padding * 2 \/ height < Padding * 2

\* the safety check of drawField
NoDrawingArea(width, height) == width <= Padding * 2 \/ height <= Padding * 2

\* mutant: the field is laid out from the left padding when the canvas is
\* wider than the field
FieldRectLeftAligned(width, height, mode) ==
    LET drawWidth == width - (Padding * 2)
        drawHeight == height - (Padding * 2)
        rn == IF mode = "full" THEN FullYardsWide ELSE HalfYardsWide
        rd == IF mode = "full" THEN FullYardsHigh ELSE HalfYardsHigh
        wide == drawWidth * rd > drawHeight * rn
        w == IF wide THEN Frac(drawHeight * rn, rd) ELSE Frac(drawWidth, 1)
        h == IF wide THEN Frac(drawHeight, 1) ELSE Frac(drawWidth * rd, rn)
    IN  [mode |-> mode,
         x |-> Frac(Padding, 1),
         y |-> IF wide THEN Frac(Padding, 1) ELSE Frac(height * h.d - h.n, 2 * h.d),
         w |-> w,
         h |-> h,
         scale |-> Frac(w.n, w.d * (IF mode = "full" THEN FullYardsWide ELSE HalfYardsWide))]

\* the calculation logic of drawField: fieldRatio is rn / rd, canvasRatio is
\* drawWidth / drawHeight with drawHeight > 0, so canvasRatio > fieldRatio
\* is drawWidth * rd > drawHeight * rn
FieldRect(width, height, mode) ==
    LET drawWidth == width - (Padding * 2)
        drawHeight == height - (Padding * 2)
        rn == IF mode = "full" THEN FullYardsWide ELSE HalfYardsWide
        rd == IF mode = "full" THEN FullYardsHigh ELSE HalfYardsHigh
        wide == drawWidth * rd > drawHeight * rn
        w == IF wide THEN Frac(drawHeight * rn, rd) ELSE Frac(drawWidth, 1)
        h == IF wide THEN Frac(drawHeight, 1) ELSE Frac(drawWidth * rd, rn)
    IN  [mode |-> mode,
         x |-> IF wide THEN Frac(width * w.d - w.n, 2 * w.d) ELSE Frac(Padding, 1),
         y |-> IF wide THEN Frac(Padding, 1) ELSE Frac(height * h.d - h.n, 2 * h.d),
         w |-> w,
         h |-> h,
         scale |-> Frac(w.n, w.d * (IF mode = "full" THEN FullYardsWide ELSE HalfYardsWide))]

\* drawField: the background fill, and the rectangle and scale handed to
\* drawFullField or drawHalfField, Null when no marking is drawn
drawField(width, height, mode) ==
    [fill |-> [x |-> 0, y |-> 0, w |-> width, h |-> height],
     field |-> IF NoDrawingArea(width, height) THEN Null
               ELSE FieldRect(width, height, mode)]

\* ---- initial state ----
Init ==
    /\ tool = "player"
    /\ viewMode = "full"
    /\ canvas = [width |-> 1000, height |-> 600]
    /\ frame = drawField(canvas.width, canvas.height, viewMode)
    /\ color = "#ef4444"
    /\ elements = << >>
    /\ isDrawing = FALSE
    /\ currentElement = Null
    /\ showClearConfirm = FALSE
    /\ selectedElementIds = << >>
    /\ dragLastPos = Null
    /\ selectionBox = Null
    /\ nextId = 0
    /\ crashed = FALSE
    /\ lastEvent = [op |-> "init"]
    /\ nEvents = 0
    /\ beforeDrag = Null
    /\ pointerDown = FALSE

\* ---- handlers ----
\* every handler runs on a mounted component and counts as one event
Handled ==
    /\ ~crashed
    /\ nEvents < MaxEvents
    /\ nEvents' = nEvents + 1

\* the render effect that follows a committed state repaints the field
Rendered == frame' = drawField(canvas'.width, canvas'.height, viewMode')

generateId(n) == n + 1

\* mutant: the filter keeps the hit element instead of dropping it
RemoveByIdKeepsHit(prev, id) == SelectSeq(prev, LAMBDA el : el.id = id)

RemoveById(prev, id) == SelectSeq(prev, LAMBDA el : el.id # id)

\* mutant: a hit always collapses the selection to the hit element
SelectOnHitCollapses(selected, hit) == <<hit.id>>

SelectOnHit(selected, hit) ==
    IF ~includes(selected, hit.id) THEN <<hit.id>> ELSE selected

\* mutant: the marker radius before it was reduced
NewPlayerOldRadius(id, x, y, c) ==
    [type |-> "player", id |-> id, x |-> x, y |-> y, radius |-> 12, color |-> c]

NewPlayer(id, x, y, c) ==
    [type |-> "player", id |-> id, x |-> x, y |-> y, radius |-> PlayerRadius, color |-> c]

NewFreehand(id, x, y, c) ==
    [type |-> "freehand", id |-> id, points |-> <<[x |-> x, y |-> y]>>, color |-> c]

NewShape(t, id, x, y, c) ==
    [type |-> t, id |-> id, sx |-> x, sy |-> y, ex |-> x, ey |-> y, color |-> c]

\* mutant: a hit sets the drag anchor and leaves the rectangle as it was
StartInteractKeepsBox(p) ==
    LET hit == getElementAtPosition(elements, p.x, p.y) IN
    /\ isDrawing' = TRUE
    /\ IF hit # Null
           THEN /\ selectedElementIds' = SelectOnHit(selectedElementIds, hit)
                /\ dragLastPos' = [x |-> p.x, y |-> p.y]
                /\ UNCHANGED selectionBox
           ELSE /\ selectedElementIds' = << >>
                /\ selectionBox' = [startX |-> p.x, startY |-> p.y,
                                    currentX |-> p.x, currentY |-> p.y]
                /\ dragLastPos' = Null
    /\ UNCHANGED <<elements, currentElement, nextId>>

\* handleStart, tool === 'interact'
StartInteract(p) ==
    LET hit == getElementAtPosition(elements, p.x, p.y) IN
    /\ isDrawing' = TRUE
    /\ IF hit # Null
           THEN /\ selectedElementIds' = SelectOnHit(selectedElementIds, hit)
                /\ dragLastPos' = [x |-> p.x, y |-> p.y]
                /\ selectionBox' = Null
           ELSE /\ selectedElementIds' = << >>
                /\ selectionBox' = [startX |-> p.x, startY |-> p.y,
                                    currentX |-> p.x, currentY |-> p.y]
                /\ dragLastPos' = Null
    /\ UNCHANGED <<elements, currentElement, nextId>>

\* handleStart, tool === 'eraser'
StartEraser(p) ==
    LET hit == getElementAtPosition(elements, p.x, p.y) IN
    /\ isDrawing' = TRUE
    /\ elements' = IF hit # Null THEN RemoveById(elements, hit.id) ELSE elements
    /\ UNCHANGED <<currentElement, selectedElementIds, dragLastPos, selectionBox, nextId>>

\* handleStart, the drawing tools
StartDrawing(p) ==
    LET id == generateId(nextId) IN
    /\ nextId' = nextId + 1
    /\ IF tool = "player" THEN
           /\ elements' = Append(elements, NewPlayer(id, p.x, p.y, color))
           /\ isDrawing' = FALSE
           /\ UNCHANGED currentElement
       ELSE
           /\ isDrawing' = TRUE
           /\ currentElement' = IF tool = "freehand"
                                    THEN NewFreehand(id, p.x, p.y, color)
                                    ELSE NewShape(tool, id, p.x, p.y, color)
           /\ UNCHANGED elements
    /\ UNCHANGED <<selectedElementIds, dragLastPos, selectionBox>>

HandleStart(p) ==
    /\ Handled
    /\ lastEvent' = [op |-> "start", x |-> p.x, y |-> p.y]
    /\ pointerDown' = TRUE
    /\ UNCHANGED <<viewMode, canvas>>
    /\ Rendered
    /\ beforeDrag' = Null
    /\ IF tool = "interact" THEN StartInteract(p)
       ELSE IF tool = "eraser" THEN StartEraser(p)
       ELSE StartDrawing(p)
    /\ UNCHANGED <<tool, color, showClearConfirm, crashed>>

\* mutant: a selected line or zone has only its start point translated
DragElementStartOnly(el, selected, dx, dy) ==
    IF ~includes(selected, el.id) THEN el
    ELSE IF el.type = "player" THEN
        [el EXCEPT !.x = el.x + dx, !.y = el.y + dy]
    ELSE IF el.type \in {"line", "circle"} THEN
        [el EXCEPT !.sx = el.sx + dx, !.sy = el.sy + dy]
    ELSE IF el.type = "freehand" THEN
        [el EXCEPT !.points = [i \in 1..Len(el.points) |->
                                  [x |-> el.points[i].x + dx, y |-> el.points[i].y + dy]]]
    ELSE el

DragElement(el, selected, dx, dy) ==
    IF ~includes(selected, el.id) THEN el
    ELSE IF el.type = "player" THEN
        [el EXCEPT !.x = el.x + dx, !.y = el.y + dy]
    ELSE IF el.type \in {"line", "circle"} THEN
        [el EXCEPT !.sx = el.sx + dx, !.sy = el.sy + dy,
                   !.ex = el.ex + dx, !.ey = el.ey + dy]
    ELSE IF el.type = "freehand" THEN
        [el EXCEPT !.points = [i \in 1..Len(el.points) |->
                                  [x |-> el.points[i].x + dx, y |-> el.points[i].y + dy]]]
    ELSE el

\* the group drag of handleMove: the elements after the pointer moved to p
DragTo(prev, selected, anchor, p) ==
    [i \in 1..Len(prev) |->
        DragElement(prev[i], selected, p.x - anchor.x, p.y - anchor.y)]

\* mutant: the anchor is not advanced to the pointer
AnchorStays(anchor, p) == anchor

\* setDragLastPos({ x, y })
AdvanceAnchor(anchor, p) == [x |-> p.x, y |-> p.y]

\* the state in which handleMove reaches its group drag
GroupDragging ==
    /\ tool = "interact" /\ isDrawing /\ selectionBox = Null
    /\ Len(selectedElementIds) > 0 /\ dragLastPos # Null

\* handleMove, tool === 'interact' && isDrawing
MoveInteract(p) ==
    IF selectionBox # Null THEN
        /\ selectionBox' = [selectionBox EXCEPT !.currentX = p.x, !.currentY = p.y]
        /\ UNCHANGED <<elements, currentElement, dragLastPos, crashed>>
    ELSE IF Len(selectedElementIds) > 0 /\ dragLastPos # Null THEN
        /\ elements' = DragTo(elements, selectedElementIds, dragLastPos, p)
        /\ dragLastPos' = AdvanceAnchor(dragLastPos, p)
        /\ UNCHANGED <<currentElement, selectionBox, crashed>>
    ELSE
        UNCHANGED <<elements, currentElement, dragLastPos, selectionBox, crashed>>

\* handleMove, the drawing tools
MoveDrawing(p) ==
    IF currentElement = Null THEN
        UNCHANGED <<elements, currentElement, dragLastPos, selectionBox, crashed>>
    ELSE IF tool = "freehand" THEN
        IF "points" \in DOMAIN currentElement THEN
            /\ currentElement' = [points |-> Append(currentElement.points,
                                                    [x |-> p.x, y |-> p.y])]
                                 @@ currentElement
            /\ UNCHANGED <<elements, dragLastPos, selectionBox, crashed>>
        ELSE
            \* [...prev.points, {x, y}] with prev.points undefined throws a
            \* TypeError inside the state updater
            /\ crashed' = TRUE
            /\ UNCHANGED <<elements, currentElement, dragLastPos, selectionBox>>
    ELSE
        /\ currentElement' = [ex |-> p.x, ey |-> p.y] @@ currentElement
        /\ UNCHANGED <<elements, dragLastPos, selectionBox, crashed>>

HandleMove(p) ==
    /\ Handled
    /\ lastEvent' = [op |-> "move", x |-> p.x, y |-> p.y]
    /\ UNCHANGED <<pointerDown, viewMode, canvas>>
    /\ Rendered
    /\ beforeDrag' = IF GroupDragging
                         THEN [elements |-> elements, dragLastPos |-> dragLastPos]
                         ELSE Null
    /\ IF ~isDrawing /\ tool # "interact" THEN
           UNCHANGED <<elements, currentElement, dragLastPos, selectionBox, crashed>>
       ELSE IF tool = "eraser" /\ isDrawing THEN
           LET hit == getElementAtPosition(elements, p.x, p.y) IN
           /\ elements' = IF hit # Null THEN RemoveById(elements, hit.id) ELSE elements
           /\ UNCHANGED <<currentElement, dragLastPos, selectionBox, crashed>>
       ELSE IF tool = "interact" /\ isDrawing THEN MoveInteract(p)
       ELSE MoveDrawing(p)
    /\ UNCHANGED <<tool, color, isDrawing, showClearConfirm, selectedElementIds, nextId>>

\* mutant: the rectangle keeps its start corner as origin
NormalizeRectFromStart(box) ==
    [x |-> box.startX,
     y |-> box.startY,
     w |-> Abs(box.currentX - box.startX),
     h |-> Abs(box.currentY - box.startY)]

NormalizeRect(box) ==
    [x |-> Min(box.startX, box.currentX),
     y |-> Min(box.startY, box.currentY),
     w |-> Abs(box.currentX - box.startX),
     h |-> Abs(box.currentY - box.startY)]

IdsOf(arr) == [i \in 1..Len(arr) |-> arr[i].id]

SelectInBox(elems, box) ==
    IdsOf(SelectSeq(elems, LAMBDA el : isElementInRect(el, NormalizeRect(box))))

\* handleEnd, tool === 'interact'
EndInteract ==
    /\ IF selectionBox # Null
           THEN /\ selectedElementIds' = SelectInBox(elements, selectionBox)
                /\ selectionBox' = Null
           ELSE UNCHANGED <<selectedElementIds, selectionBox>>
    /\ dragLastPos' = Null

\* mutant: the in-progress slot is not cleared by the commit
EndCommitKeepsCurrent ==
    IF currentElement # Null
        THEN /\ elements' = Append(elements, currentElement)
             /\ UNCHANGED currentElement
        ELSE UNCHANGED <<elements, currentElement>>

\* mutant: the in-progress element is committed below the others
EndCommitPrepends ==
    IF currentElement # Null
        THEN /\ elements' = <<currentElement>> \o elements
             /\ currentElement' = Null
        ELSE UNCHANGED <<elements, currentElement>>

\* handleEnd, if (currentElement)
EndCommit ==
    IF currentElement # Null
        THEN /\ elements' = Append(elements, currentElement)
             /\ currentElement' = Null
        ELSE UNCHANGED <<elements, currentElement>>

\* mutant: the pointer-up does not reset isDrawing
HandleEndKeepsDrawing ==
    /\ Handled
    /\ lastEvent' = [op |-> "end", after |-> lastEvent.op]
    /\ pointerDown' = FALSE
    /\ UNCHANGED <<viewMode, canvas>>
    /\ Rendered
    /\ beforeDrag' = Null
    /\ UNCHANGED isDrawing
    /\ IF tool = "interact"
           THEN EndInteract
           ELSE UNCHANGED <<selectedElementIds, selectionBox, dragLastPos>>
    /\ EndCommit
    /\ UNCHANGED <<tool, color, showClearConfirm, nextId, crashed>>

HandleEnd ==
    /\ Handled
    /\ lastEvent' = [op |-> "end", after |-> lastEvent.op]
    /\ pointerDown' = FALSE
    /\ UNCHANGED <<viewMode, canvas>>
    /\ Rendered
    /\ beforeDrag' = Null
    /\ isDrawing' = FALSE
    /\ IF tool = "interact"
           THEN EndInteract
           ELSE UNCHANGED <<selectedElementIds, selectionBox, dragLastPos>>
    /\ EndCommit
    /\ UNCHANGED <<tool, color, showClearConfirm, nextId, crashed>>

HandleClearTrigger ==
    /\ Handled
    /\ lastEvent' = [op |-> "clearTrigger"]
    /\ UNCHANGED <<pointerDown, viewMode, canvas>>
    /\ Rendered
    /\ beforeDrag' = Null
    /\ showClearConfirm' = TRUE
    /\ UNCHANGED <<tool, color, elements, isDrawing, currentElement, selectedElementIds,
                   dragLastPos, selectionBox, nextId, crashed>>

\* the modal's Clear Board button is rendered while showClearConfirm holds
HandleConfirmClear ==
    /\ Handled
    /\ showClearConfirm
    /\ lastEvent' = [op |-> "confirmClear"]
    /\ UNCHANGED <<pointerDown, viewMode, canvas>>
    /\ Rendered
    /\ beforeDrag' = Null
    /\ elements' = << >>
    /\ currentElement' = Null
    /\ selectedElementIds' = << >>
    /\ showClearConfirm' = FALSE
    /\ UNCHANGED <<tool, color, isDrawing, dragLastPos, selectionBox, nextId, crashed>>

HandleCancelClear ==
    /\ Handled
    /\ showClearConfirm
    /\ lastEvent' = [op |-> "cancelClear"]
    /\ UNCHANGED <<pointerDown, viewMode, canvas>>
    /\ Rendered
    /\ beforeDrag' = Null
    /\ showClearConfirm' = FALSE
    /\ UNCHANGED <<tool, color, elements, isDrawing, currentElement, selectedElementIds,
                   dragLastPos, selectionBox, nextId, crashed>>

\* mutant: prev.slice(1)
SliceDropFirst(prev) == SubSeq(prev, 2, Len(prev))

\* prev.slice(0, -1)
SliceDropLast(prev) == SubSeq(prev, 1, Len(prev) - 1)

\* mutant: undo also prunes the selection of the ids that left the sequence
HandleUndoPrunesSelection ==
    /\ Handled
    /\ lastEvent' = [op |-> "undo"]
    /\ UNCHANGED <<pointerDown, viewMode, canvas>>
    /\ Rendered
    /\ beforeDrag' = Null
    /\ elements' = SliceDropLast(elements)
    /\ selectedElementIds' =
           SelectSeq(selectedElementIds,
                     LAMBDA id : \E i \in 1..Len(elements) - 1 : elements[i].id = id)
    /\ UNCHANGED <<tool, color, isDrawing, currentElement, showClearConfirm,
                   dragLastPos, selectionBox, nextId, crashed>>

HandleUndo ==
    /\ Handled
    /\ lastEvent' = [op |-> "undo"]
    /\ UNCHANGED <<pointerDown, viewMode, canvas>>
    /\ Rendered
    /\ beforeDrag' = Null
    /\ elements' = SliceDropLast(elements)
    /\ UNCHANGED <<tool, color, isDrawing, currentElement, showClearConfirm,
                   selectedElementIds, dragLastPos, selectionBox, nextId, crashed>>

\* a toolbar button of another tool
SetTool(t) ==
    /\ Handled
    /\ t # tool
    /\ lastEvent' = [op |-> "setTool"]
    /\ UNCHANGED <<pointerDown, viewMode, canvas>>
    /\ Rendered
    /\ beforeDrag' = Null
    /\ tool' = t
    /\ UNCHANGED <<color, elements, isDrawing, currentElement, showClearConfirm,
                   selectedElementIds, dragLastPos, selectionBox, nextId, crashed>>

\* a colour button of another colour
SetColor(c) ==
    /\ Handled
    /\ c # color
    /\ lastEvent' = [op |-> "setColor"]
    /\ UNCHANGED <<pointerDown, viewMode, canvas>>
    /\ Rendered
    /\ beforeDrag' = Null
    /\ color' = c
    /\ UNCHANGED <<tool, elements, isDrawing, currentElement, showClearConfirm,
                   selectedElementIds, dragLastPos, selectionBox, nextId, crashed>>

Next ==
    \/ \E p \in Points : HandleStart(p)
    \/ \E p \in Points : HandleMove(p)
    \/ HandleEnd
    \/ HandleClearTrigger
    \/ HandleConfirmClear
    \/ HandleCancelClear
    \/ HandleUndo
    \/ \E t \in Tools : SetTool(t)
    \/ \E c \in Colors : SetColor(c)

Spec == Init /\ [][Next]_vars

\* ---- the interact tool on a drawn board ----
\* Elements as the drawing tools leave them, at pointer positions.
Samples(id) ==
    { NewPlayer(id, 0, 0, "#ef4444"),
      NewPlayer(id, 0, 20, "#3b82f6"),
      [NewShape("line", id, 0, 0, "#ef4444") EXCEPT !.ex = 0, !.ey = 20],
      NewShape("circle", id, 12, 0, "#3b82f6"),
      [NewFreehand(id, 12, 0, "#3b82f6") EXCEPT
          !.points = <<[x |-> 12, y |-> 0], [x |-> 0, y |-> 20]>>] }

Boards ==
    { <<a, b>> : a \in Samples(1), b \in Samples(2) }
        \cup { <<a, b, c>> : a \in Samples(1), b \in Samples(2), c \in Samples(3) }

\* the component after a board was drawn and the interact tool picked
InitBoard ==
    /\ tool = "interact"
    /\ viewMode = "full"
    /\ canvas = [width |-> 1000, height |-> 600]
    /\ frame = drawField(canvas.width, canvas.height, viewMode)
    /\ color = "#ef4444"
    /\ elements \in Boards
    /\ isDrawing = FALSE
    /\ currentElement = Null
    /\ showClearConfirm = FALSE
    /\ selectedElementIds = << >>
    /\ dragLastPos = Null
    /\ selectionBox = Null
    /\ nextId = Len(elements)
    /\ crashed = FALSE
    /\ lastEvent = [op |-> "init"]
    /\ nEvents = 0
    /\ beforeDrag = Null
    /\ pointerDown = FALSE

NextBoard ==
    \/ \E p \in Points : HandleStart(p)
    \/ \E p \in Points : HandleMove(p)
    \/ HandleEnd
    \/ HandleUndo

SpecBoard == InitBoard /\ [][NextBoard]_vars

\* ---- hit testing of one drawn element ----
\* pointer positions at distance exactly 10 or 13 from, and on either side
\* of, elements drawn between the positions of Points
Probes == {[x |-> a, y |-> b] : a \in {0, 6, 10, 22}, b \in {0, 8, 10, 13}}

\* one element of each kind as the drawing tools leave it: a marker at s, a
\* line and a zone from s to e (s = e after a click without a move), a path
\* through s and e
HitSamples ==
    { NewPlayer(1, s.x, s.y, "#ef4444") : s \in Points }
        \cup { [NewShape(t, 1, s.x, s.y, "#ef4444") EXCEPT !.ex = e.x, !.ey = e.y] :
                   t \in {"line", "circle"}, s \in Points, e \in Points }
        \cup { [NewFreehand(1, s.x, s.y, "#ef4444") EXCEPT
                    !.points = <<[x |-> s.x, y |-> s.y], [x |-> e.x, y |-> e.y]>>] :
                   s \in Points, e \in Points }

\* the component after one element was drawn and a hit-testing tool picked
InitHit ==
    /\ tool \in {"interact", "eraser"}
    /\ viewMode = "full"
    /\ canvas = [width |-> 1000, height |-> 600]
    /\ frame = drawField(canvas.width, canvas.height, viewMode)
    /\ color = "#ef4444"
    /\ \E el \in HitSamples : elements = <<el>>
    /\ isDrawing = FALSE
    /\ currentElement = Null
    /\ showClearConfirm = FALSE
    /\ selectedElementIds = << >>
    /\ dragLastPos = Null
    /\ selectionBox = Null
    /\ nextId = 1
    /\ crashed = FALSE
    /\ lastEvent = [op |-> "init"]
    /\ nEvents = 0
    /\ beforeDrag = Null
    /\ pointerDown = FALSE

NextHit ==
    \/ \E p \in Probes : HandleStart(p)
    \/ HandleEnd

SpecHit == InitHit /\ [][NextHit]_vars

\* ---- the field renderer on a resized canvas ----
\* sizes of the container: no drawing area, a drawing area of size zero or
\* one, canvases wider and taller than either field, the field's own ratio
CanvasSizes ==
    {[width |-> a, height |-> b] : a \in {0, 60, 61, 170, 280, 1000},
                                   b \in {0, 60, 61, 120, 600}}

\* a view-mode button of the other mode
SetViewMode(m) ==
    /\ Handled
    /\ m # viewMode
    /\ lastEvent' = [op |-> "setViewMode"]
    /\ viewMode' = m
    /\ UNCHANGED <<pointerDown, canvas>>
    /\ Rendered
    /\ beforeDrag' = Null
    /\ UNCHANGED <<tool, color, elements, isDrawing, currentElement, showClearConfirm,
                   selectedElementIds, dragLastPos, selectionBox, nextId, crashed>>

\* the window's resize event: the canvas takes the size of its container
\* and setElements(prev => [...prev]) triggers the redraw
handleResize(size) ==
    /\ Handled
    /\ lastEvent' = [op |-> "resize"]
    /\ canvas' = size
    /\ UNCHANGED <<pointerDown, viewMode>>
    /\ Rendered
    /\ beforeDrag' = Null
    /\ UNCHANGED <<tool, color, elements, isDrawing, currentElement, showClearConfirm,
                   selectedElementIds, dragLastPos, selectionBox, nextId, crashed>>

\* the component mounted in a container of any of the sizes
InitField ==
    /\ tool = "player"
    /\ viewMode = "full"
    /\ canvas \in CanvasSizes
    /\ frame = drawField(canvas.width, canvas.height, viewMode)
    /\ color = "#ef4444"
    /\ elements = << >>
    /\ isDrawing = FALSE
    /\ currentElement = Null
    /\ showClearConfirm = FALSE
    /\ selectedElementIds = << >>
    /\ dragLastPos = Null
    /\ selectionBox = Null
    /\ nextId = 0
    /\ crashed = FALSE
    /\ lastEvent = [op |-> "init"]
    /\ nEvents = 0
    /\ beforeDrag = Null
    /\ pointerDown = FALSE

NextField ==
    \/ \E m \in ViewModes : SetViewMode(m)
    \/ \E size \in CanvasSizes : handleResize(size)

SpecField == InitField /\ [][NextField]_vars

\* ---- properties ----
ElementIds == {elements[i].id : i \in 1..Len(elements)}
SelectedIds == {selectedElementIds[i] : i \in 1..Len(selectedElementIds)}
DrawnKinds == {"line", "circle", "freehand"}

\* C1: every id in the selection set references an element that is present
\* in the committed sequence.
C1_SelectionReferencesElements == SelectedIds \subseteq ElementIds

\* C2: the ids of the committed elements are pairwise distinct; no pointer-up
\* or tool switch commits the same in-progress element twice.
C2_IdsDistinct ==
    \A i, j \in 1..Len(elements) : i # j => elements[i].id # elements[j].id

\* a drawn element was committed on top of another one by a pointer-up
C2_Witness ==
    /\ lastEvent.op = "end"
    /\ Len(elements) >= 2
    /\ elements[Len(elements)].type \in DrawnKinds
    /\ currentElement = Null

\* C3: after a confirmed clear-all the committed sequence, the in-progress
\* element, the selection rectangle, the drag anchor and the selection set
\* are all empty and the confirmation gate is closed.
C3_ClearAllEmptiesEverything ==
    lastEvent.op = "confirmClear" =>
        /\ elements = << >>
        /\ currentElement = Null
        /\ selectionBox = Null
        /\ dragLastPos = Null
        /\ selectedElementIds = << >>
        /\ ~showClearConfirm

\* C4: undo on a non-empty sequence yields the sequence without its last
\* element, the others unchanged and in order; undo on the empty sequence
\* leaves it empty.
C4_UndoDropsLast ==
    [][lastEvent'.op = "undo" =>
          IF elements = << >> THEN elements' = << >>
          ELSE /\ Len(elements') = Len(elements) - 1
               /\ \A i \in 1..Len(elements') : elements'[i] = elements[i]]_vars

\* undo ran on a sequence of at least two elements
C4_Witness ==
    /\ lastEvent.op = "undo"
    /\ Len(elements) >= 1
    /\ nextId > Len(elements)

\* C5: undo changes nothing but the committed sequence: selection set,
\* in-progress element, selection rectangle, drag anchor and tool stay.
C5_UndoFrame ==
    [][lastEvent'.op = "undo" =>
          UNCHANGED <<selectedElementIds, currentElement, selectionBox,
                      dragLastPos, tool>>]_vars

\* undo ran in the middle of a drag of a selected element
C5_Witness ==
    /\ lastEvent.op = "undo"
    /\ selectedElementIds # << >>
    /\ dragLastPos # Null
    /\ ~(SelectedIds \subseteq ElementIds)

\* the indices of the elements hit at (x, y)
HitIndices(elems, x, y) == {i \in 1..Len(elems) : isHit(elems[i], x, y)}
MaxOf(S) == CHOOSE m \in S : \A n \in S : n <= m

\* C6: pointer-down with the interact tool: topmost hit already selected:
\* selection unchanged and the anchor set at the pointer; hit but not
\* selected: the selection is exactly the hit id and the anchor is set;
\* nothing hit: the selection is empty, a rectangle starts with both corners
\* at the pointer and no anchor is set.
C6_InteractPointerDown ==
    [][(lastEvent'.op = "start" /\ tool = "interact") =>
          LET x == lastEvent'.x
              y == lastEvent'.y
              H == HitIndices(elements, x, y)
          IN  IF H # {} THEN
                  LET top == elements[MaxOf(H)] IN
                  /\ top.id \in SelectedIds => selectedElementIds' = selectedElementIds
                  /\ top.id \notin SelectedIds => selectedElementIds' = <<top.id>>
                  /\ dragLastPos' = [x |-> x, y |-> y]
              ELSE
                  /\ selectedElementIds' = << >>
                  /\ selectionBox' = [startX |-> x, startY |-> y,
                                      currentX |-> x, currentY |-> y]
                  /\ dragLastPos' = Null]_vars

\* a pointer-down hit an element of a selection of two and kept both selected
C6_Witness ==
    /\ lastEvent.op = "start"
    /\ tool = "interact"
    /\ Len(selectedElementIds) >= 2
    /\ dragLastPos = [x |-> lastEvent.x, y |-> lastEvent.y]
    /\ SelectedIds \subseteq ElementIds

\* C9: a pointer-down with the draw-line, draw-zone or draw-freehand tool
\* puts an element of that kind in progress; pointer-up while an element is
\* in progress appends it, as it is at that moment, as the last element of
\* the committed sequence, which grows by exactly one, and empties the
\* in-progress slot.
C9_PointerUpCommits ==
    [][/\ (lastEvent'.op = "start" /\ tool \in DrawnKinds) =>
             /\ currentElement' # Null
             /\ currentElement'.type = tool
             /\ elements' = elements
       /\ (lastEvent'.op = "end" /\ currentElement # Null) =>
             /\ currentElement.type \in DrawnKinds
             /\ Len(elements') = Len(elements) + 1
             /\ elements'[Len(elements')] = currentElement
             /\ \A i \in 1..Len(elements) : elements'[i] = elements[i]
             /\ currentElement' = Null]_vars

\* a line or zone stretched away from its start was committed on top of another element
C9_Witness ==
    /\ lastEvent.op = "end"
    /\ currentElement = Null
    /\ Len(elements) >= 2
    /\ LET top == elements[Len(elements)] IN
       /\ top.type \in {"line", "circle"}
       /\ top.id = nextId
       /\ <<top.ex, top.ey>> # <<top.sx, top.sy>>

\* b is a translated by (dx, dy): the centre of a marker, both endpoints of a
\* line or zone, every point of a freehand path
Translated(a, b, dx, dy) ==
    IF a.type = "player" THEN
        b.x = a.x + dx /\ b.y = a.y + dy
    ELSE IF a.type \in {"line", "circle"} THEN
        /\ b.sx = a.sx + dx /\ b.sy = a.sy + dy
        /\ b.ex = a.ex + dx /\ b.ey = a.ey + dy
    ELSE
        /\ Len(b.points) = Len(a.points)
        /\ \A k \in 1..Len(a.points) :
              b.points[k] = [x |-> a.points[k].x + dx, y |-> a.points[k].y + dy]

\* C7: a group-drag pointer-move by (dx, dy) translates every coordinate of
\* every selected element by (dx, dy), leaves the other elements unchanged,
\* keeps every id, kind and colour and the length and order of the sequence.
C7_GroupDragTranslates ==
    [][(lastEvent'.op = "move" /\ GroupDragging) =>
          LET dx == lastEvent'.x - dragLastPos.x
              dy == lastEvent'.y - dragLastPos.y
          IN  /\ Len(elements') = Len(elements)
              /\ \A i \in 1..Len(elements) :
                    LET a == elements[i]
                        b == elements'[i]
                    IN  /\ b.id = a.id /\ b.type = a.type /\ b.color = a.color
                        /\ IF a.id \in SelectedIds
                               THEN Translated(a, b, dx, dy)
                               ELSE b = a]_vars

\* a group drag moved two selected elements of different kinds and left a
\* third one where it was
C7_Witness ==
    /\ lastEvent.op = "move"
    /\ beforeDrag # Null
    /\ beforeDrag.elements # elements
    /\ \E i, j, k \in 1..Len(elements) :
          /\ elements[i].id \in SelectedIds /\ elements[j].id \in SelectedIds
          /\ elements[i].type # elements[j].type
          /\ elements[i] # beforeDrag.elements[i]
          /\ elements[j] # beforeDrag.elements[j]
          /\ elements[k].id \notin SelectedIds

BoxLeft(box) == IF box.startX <= box.currentX THEN box.startX ELSE box.currentX
BoxRight(box) == IF box.startX <= box.currentX THEN box.currentX ELSE box.startX
BoxTop(box) == IF box.startY <= box.currentY THEN box.startY ELSE box.currentY
BoxBottom(box) == IF box.startY <= box.currentY THEN box.currentY ELSE box.startY
Inside(px, py, box) ==
    /\ BoxLeft(box) <= px /\ px <= BoxRight(box)
    /\ BoxTop(box) <= py /\ py <= BoxBottom(box)
Intersects(el, box) ==
    IF el.type = "player" THEN Inside(el.x, el.y, box)
    ELSE IF el.type \in {"line", "circle"} THEN
        Inside(el.sx, el.sy, box) \/ Inside(el.ex, el.ey, box)
    ELSE \E k \in 1..Len(el.points) : Inside(el.points[k].x, el.points[k].y, box)

\* C10: pointer-up with the interact tool while a selection rectangle is
\* active: the selection becomes exactly the ids of the committed elements
\* that intersect the normalised rectangle; rectangle and anchor are cleared.
C10_BoxSelects ==
    [][(lastEvent'.op = "end" /\ tool = "interact" /\ selectionBox # Null) =>
          /\ {selectedElementIds'[i] : i \in 1..Len(selectedElementIds')}
                = {elements[i].id : i \in {j \in 1..Len(elements) :
                                              Intersects(elements[j], selectionBox)}}
          /\ selectionBox' = Null
          /\ dragLastPos' = Null]_vars

\* a rectangle dragged out from an empty spot selected two elements and left
\* a third one out
C10_Witness ==
    /\ lastEvent.op = "end"
    /\ tool = "interact"
    /\ nEvents = 3
    /\ Len(selectedElementIds) = 2
    /\ Len(elements) = 3
    /\ selectionBox = Null

\* the sequence without its i-th element, the others in their order
WithoutIndex(seq, i) == [j \in 1..(Len(seq) - 1) |-> IF j < i THEN seq[j] ELSE seq[j + 1]]

\* C11: with the erase tool a pointer-down, and every pointer-move while the
\* pointer remains down (isDrawing, which the pointer-down set and only a
\* pointer-up or a marker placement resets), removes exactly the topmost
\* element hit at the pointer and keeps the remaining elements in their
\* order, or removes nothing when nothing is hit; a pointer-up leaves
\* isDrawing false, and a pointer-move while it is false removes nothing.
C11_EraserRemovesHit ==
    [][/\ (/\ tool = "eraser"
           /\ \/ lastEvent'.op = "start"
              \/ lastEvent'.op = "move" /\ isDrawing) =>
              LET H == HitIndices(elements, lastEvent'.x, lastEvent'.y) IN
              elements' = IF H # {} THEN WithoutIndex(elements, MaxOf(H))
                          ELSE elements
       /\ lastEvent'.op = "end" => ~isDrawing'
       /\ (tool = "eraser" /\ lastEvent'.op = "move" /\ ~isDrawing) =>
              elements' = elements]_vars

\* three markers were placed, the erase tool's pointer-down removed one and
\* the pointer-move that followed removed another: one marker is left
C11_Witness ==
    /\ lastEvent.op = "move"
    /\ tool = "eraser"
    /\ isDrawing
    /\ nEvents = 6
    /\ nextId = 3
    /\ Len(elements) = 1

\* C12: at every point, getElementAtPosition returns the hit element of the
\* highest index of the committed sequence when at least one element is
\* hit there, and returns none exactly when no element is hit there.
C12_TopmostHit ==
    \A p \in Points :
        LET H == HitIndices(elements, p.x, p.y)
            r == getElementAtPosition(elements, p.x, p.y)
        IN  /\ H # {} => r = elements[MaxOf(H)]
            /\ r = Null <=> H = {}

\* a pointer-down of the interact tool landed where two elements are hit,
\* below an element that is not hit, and selected the upper of the two
C12_Witness ==
    /\ lastEvent.op = "start"
    /\ tool = "interact"
    /\ LET H == HitIndices(elements, lastEvent.x, lastEvent.y) IN
           /\ Cardinality(H) >= 2
           /\ MaxOf(H) < Len(elements)
           /\ selectedElementIds = <<elements[MaxOf(H)].id>>

\* what a pointer-down with the place-marker tool does at once: one marker
\* of radius 8 and of the current colour is appended at the pointer, no
\* element is put in progress and no drag phase starts
MarkerPlaced ==
    (lastEvent'.op = "start" /\ tool = "player") =>
        /\ Len(elements') = Len(elements) + 1
        /\ SubSeq(elements', 1, Len(elements)) = elements
        /\ LET m == elements'[Len(elements')] IN
               /\ m.type = "player"
               /\ m.x = lastEvent'.x /\ m.y = lastEvent'.y
               /\ m.radius = 8
               /\ m.color = color
               /\ m.id \notin ElementIds
        /\ currentElement' = currentElement
        /\ ~isDrawing'
        /\ UNCHANGED <<dragLastPos, selectionBox, selectedElementIds>>

\* the place-marker tool after its pointer-down and before the pointer-up
InMarkerGesture == tool = "player" /\ pointerDown /\ ~isDrawing

NormSq(ax, ay) == ax * ax + ay * ay

\* the squared distance from p to the segment s-e, as the fraction n / d:
\* to the nearer end point when the foot of the perpendicular falls outside
\* the segment, else the perpendicular distance |cross| / |e - s|
SegmentDistance(p, s, e) ==
    LET len2 == NormSq(e.x - s.x, e.y - s.y)
        along == (p.x - s.x) * (e.x - s.x) + (p.y - s.y) * (e.y - s.y)
        cross == (p.x - s.x) * (e.y - s.y) - (p.y - s.y) * (e.x - s.x)
    IN  IF len2 = 0 \/ along <= 0 THEN [n |-> NormSq(p.x - s.x, p.y - s.y), d |-> 1]
        ELSE IF along >= len2 THEN [n |-> NormSq(p.x - e.x, p.y - e.y), d |-> 1]
        ELSE [n |-> cross * cross, d |-> len2]

\* the hit rule of each kind, on squared distances
HitRule(el, p) ==
    CASE el.type = "player" ->
             NormSq(p.x - el.x, p.y - el.y) <= (el.radius + 5) * (el.radius + 5)
      [] el.type = "circle" ->
             LET r2 == NormSq(el.ex - el.sx, el.ey - el.sy) IN
             NormSq(p.x - el.sx, p.y - el.sy) <= (IF r2 >= 100 THEN r2 ELSE 100)
      [] el.type = "line" ->
             LET q == SegmentDistance(p, [x |-> el.sx, y |-> el.sy],
                                         [x |-> el.ex, y |-> el.ey])
             IN  q.n < 100 * q.d
      [] el.type = "freehand" ->
             \E i \in 1..Len(el.points) :
                 NormSq(p.x - el.points[i].x, p.y - el.points[i].y) < 100

\* C14: for every committed element and every probe point, isHit holds iff
\* the rule of the element's kind holds: marker, distance to the centre
\* <= radius + 5; zone, distance to the start point <= max(radius, 10);
\* line, distance to the clamped segment < 10; freehand, some path point at
\* distance < 10.
C14_HitRules ==
    \A i \in 1..Len(elements) : \A p \in Probes :
        isHit(elements[i], p.x, p.y) <=> HitRule(elements[i], p)

\* a pointer-down of the interact tool at distance exactly 10 from the
\* interior of a line did not hit it and started a selection rectangle
C14_Witness ==
    /\ lastEvent.op = "start"
    /\ tool = "interact"
    /\ selectionBox # Null
    /\ Len(elements) = 1
    /\ elements[1].type = "line"
    /\ LET q == SegmentDistance([x |-> lastEvent.x, y |-> lastEvent.y],
                                [x |-> elements[1].sx, y |-> elements[1].sy],
                                [x |-> elements[1].ex, y |-> elements[1].ey])
       IN  q.n = 100 * q.d /\ q.d > 1

\* C15: during a draw gesture (the pointer is down and an element is in
\* progress) a pointer-move with the draw-line or draw-zone tool sets the
\* end point of the in-progress element to the pointer and keeps its start
\* point, id and colour; a pointer-move with the draw-freehand tool appends
\* the pointer as the new last point of the in-progress path and keeps the
\* earlier points in their order.
C15_MoveUpdatesInProgress ==
    [][(lastEvent'.op = "move" /\ isDrawing /\ currentElement # Null) =>
          LET x == lastEvent'.x
              y == lastEvent'.y
          IN  /\ tool \in {"line", "circle"} =>
                     /\ currentElement'.ex = x /\ currentElement'.ey = y
                     /\ currentElement'.id = currentElement.id
                     /\ currentElement'.color = currentElement.color
                     /\ "sx" \in DOMAIN currentElement =>
                            /\ currentElement'.sx = currentElement.sx
                            /\ currentElement'.sy = currentElement.sy
              /\ tool = "freehand" =>
                     /\ ~crashed'
                     /\ "points" \in DOMAIN currentElement'
                     /\ Len(currentElement'.points) >= 1
                     /\ currentElement'.points[Len(currentElement'.points)]
                            = [x |-> x, y |-> y]
                     /\ "points" \in DOMAIN currentElement =>
                            currentElement'.points
                                = Append(currentElement.points, [x |-> x, y |-> y])]_vars

\* equality and order of fractions, by cross-multiplication
FracEq(a, b) == a.n * b.d = b.n * a.d
FracGeq(a, b) == IF a.d * b.d > 0 THEN a.n * b.d >= b.n * a.d
                 ELSE a.n * b.d <= b.n * a.d

\* C16: when the canvas width or height minus the padding of 30 on both
\* sides is not positive, drawField paints the background fill over the
\* canvas and nothing else, in either view mode: no field rectangle, ratio
\* or scale is computed; whenever one is computed, the divisors (the
\* drawing height and the denominators of the quotients) are not zero.
C16_NoAreaNoField ==
    /\ (canvas.width - 2 * 30 <= 0 \/ canvas.height - 2 * 30 <= 0) =>
           frame = [fill |-> [x |-> 0, y |-> 0, w |-> canvas.width, h |-> canvas.height],
                    field |-> Null]
    /\ frame.field # Null =>
           /\ canvas.height - 2 * 30 # 0
           /\ \A k \in {"x", "y", "w", "h", "scale"} : frame.field[k].d # 0

\* the half-field view was rendered on a canvas of width 60: background only
C16_Witness ==
    /\ lastEvent.op \in {"resize", "setViewMode"}
    /\ viewMode = "half"
    /\ canvas.width = 60
    /\ canvas.height > 60
    /\ frame.field = Null
    /\ frame.fill.w = 60

C18_DegenerateSegment ==
    \A i \in 1..Len(elements) :
        LET el == elements[i] IN
        (el.type = "line" /\ el.sx = el.ex /\ el.sy = el.ey) =>
            \A p \in Probes :
                LET s == [x |-> el.sx, y |-> el.sy]
                    q == pointToLineDistance(p, s, [x |-> el.ex, y |-> el.ey])
                IN  /\ q.d # 0
                    /\ q.n = NormSq(p.x - s.x, p.y - s.y) * q.d

\* a pointer-down of the interact tool beside a line of length zero, within
\* 10 of its point, hit and selected it
C18_Witness ==
    /\ lastEvent.op = "start"
    /\ tool = "interact"
    /\ Len(elements) = 1
    /\ elements[1].type = "line"
    /\ elements[1].sx = elements[1].ex /\ elements[1].sy = elements[1].ey
    /\ NormSq(lastEvent.x - elements[1].sx, lastEvent.y - elements[1].sy) > 0
    /\ selectedElementIds = <<elements[1].id>>

\* C19: whenever no pointer is down (no pointer-down yet, or a pointer-up
\* since the last pointer-down) there is no in-progress element, no
\* selection rectangle and no drag anchor, whatever tool switches, undos
\* and clear-alls were interleaved with the gestures.
C19_IdleHasNoTransientState ==
    ~pointerDown =>
        /\ currentElement = Null
        /\ selectionBox = Null
        /\ dragLastPos = Null

\* C20: a pointer-up that arrives while no pointer is down (a pointer-up was
\* the last pointer-down or pointer-up before it, whatever other events came
\* between) changes nothing: it appends no element, does not replace the
\* selection set and leaves the rest of the component's state as it is.
C20_SecondPointerUpNoOp ==
    [][(lastEvent'.op = "end" /\ ~pointerDown) =>
          UNCHANGED <<tool, viewMode, color, elements, isDrawing, currentElement,
                      showClearConfirm, selectedElementIds, dragLastPos,
                      selectionBox>>]_vars

\* the rectangle of size zero at (x, y)
PointRect(x, y) == [x |-> x, y |-> y, w |-> 0, h |-> 0]

\* C21: with the interact tool, a pointer-down where no element is hit,
\* followed directly by the pointer-up, leaves the selection set empty and
\* no rectangle active: every committed element that the rectangle of size
\* zero at the pointer selects is an element isHit reports there.
C21_ClickOnNothingSelectsNothing ==
    [][(/\ lastEvent.op = "start"
        /\ tool = "interact"
        /\ HitIndices(elements, lastEvent.x, lastEvent.y) = {}
        /\ lastEvent'.op = "end") =>
           /\ \A i \in 1..Len(elements) :
                  isElementInRect(elements[i], PointRect(lastEvent.x, lastEvent.y))
                      => i \in HitIndices(elements, lastEvent.x, lastEvent.y)
           /\ selectedElementIds' = << >>
           /\ selectionBox' = Null]_vars

\* an element was selected, then a pointer-down beside the elements and the
\* pointer-up directly after it emptied the selection set
C21_Witness ==
    /\ lastEvent.op = "end"
    /\ lastEvent.after = "start"
    /\ tool = "interact"
    /\ nEvents = 6
    /\ nextId = 1
    /\ Len(elements) = 1
    /\ selectedElementIds = << >>
    /\ selectionBox = Null

\* C22: a pointer-move that arrives while no pointer is down (no
\* pointer-down yet, or a pointer-up since the last one) changes neither
\* the committed sequence nor the selection set, whichever tool is active.
C22_HoverChangesNothing ==
    [][(lastEvent'.op = "move" /\ ~pointerDown) =>
          UNCHANGED <<elements, selectedElementIds>>]_vars

\* a pointer-move of the erase tool passed over an element while no pointer
\* was down: the element is still in the sequence
C22_Witness ==
    /\ lastEvent.op = "move"
    /\ ~pointerDown
    /\ ~isDrawing
    /\ tool = "eraser"
    /\ HitIndices(elements, lastEvent.x, lastEvent.y) # {}

\* C23: in every reachable state the selection rectangle and the drag
\* anchor are not both set, and a pointer-move with the interact tool that
\* updates the rectangle moves no element and no anchor (a move that drags
\* the selection leaves the rectangle as it is).
C23_BoxOrAnchor ==
    /\ [](~(selectionBox # Null /\ dragLastPos # Null))
    /\ [][(lastEvent'.op = "move" /\ tool = "interact") =>
             ~(/\ selectionBox' # selectionBox
               /\ elements' # elements \/ dragLastPos' # dragLastPos)]_vars

\* a pointer-move with the interact tool dragged the selection: the anchor
\* is at the pointer, the elements moved and no rectangle is active
C23_Witness ==
    /\ lastEvent.op = "move"
    /\ tool = "interact"
    /\ pointerDown
    /\ beforeDrag # Null
    /\ elements # beforeDrag.elements
    /\ dragLastPos = [x |-> lastEvent.x, y |-> lastEvent.y]
    /\ selectionBox = Null
====
